---------------------------- MODULE Spec2Model ----------------------------
(***************************************************************************)
(* Model of the motor digital-twin telemetry generators:                   *)
(*   motor_backend/live_updater.py        (the live generator)             *)
(*   motor_backend/simulate_motor_500.py  (the batch generator)            *)
(*                                                                         *)
(* Numbers.  Every floating point quantity of the scripts is held as an    *)
(* integer number of ticks, one tick being 0.00001 (Scale ticks = 1.0).    *)
(* round(x, 2) keeps multiples of 1000 ticks, round(x, 3) multiples of     *)
(* 100 ticks.  A value that lies exactly half way between two multiples   *)
(* is rounded by Python according to the binary representation of the      *)
(* float, which is above or below the decimal tie depending on the         *)
(* operands (round(50.0 + 0.005, 2) = 50.01, round(50.0 - 0.005, 2) =      *)
(* 49.99); RoundTo therefore yields both neighbours at an exact tie and    *)
(* one value everywhere else.                                              *)
(*                                                                         *)
(* Keys.  A log key "entry_<digits>" is held as its digit sequence; all    *)
(* keys share the prefix "entry_", so the string order of two keys is the  *)
(* lexicographic order of their digit sequences.                           *)
(***************************************************************************)
EXTENDS Integers, Sequences, FiniteSets, TLC

VARIABLES
    \* ---- a run of one of the two scripts (Spec)
    program,        \* "live_updater" or "simulate_motor_500"
    pc,             \* position of the script
    cred_found,     \* whether the credential search found a key file
    now,            \* wall clock, seconds
    exit_code,      \* exit status of the process, NoExit while it runs
    db_test,        \* motor01/_test
    db_logs,        \* motor01/logs: key -> entry
    db_live,        \* motor01/live_reading
    prior_logs,     \* motor01/logs as it was when the process started
    entry_counter,  \* live_updater.entry_counter
    last,           \* live_updater.last_I1 .. last_vib
    flat,           \* the sample of the current loop cycle
    cycles,         \* completed loop cycles (history)
    live_failures,  \* cycles whose live_reading write raised (history)
    log_failures,   \* cycles whose logs write raised (history)
    failed_keys,    \* keys whose logs write raised (history)
    num_points,     \* simulate_series.num_points
    loop_i,         \* simulate_series.i
    logs,           \* simulate_series.logs
    spiked,         \* indices whose vibration got the extra spike (history)
    \* ---- one channel of the live signal model, stepped on its own (SpecSignal)
    chan,           \* the channel, or "batch" for a sample of simulate_series
    value,          \* the channel's last_* value
    entry_index,    \* generate_log_entry.entry_index (vibration only)
    reflected,      \* whether the last _step call bounced off an edge (history)
    sample_N,       \* num_points of the sampled series
    sample_i,       \* index of the sample
    sample,         \* the entry simulate_series builds for sample_i
    sample_spike,   \* whether the spike was added to it (history)
    \* ---- the keys of a run whose writes all succeed (SpecKeys)
    key_program,    \* which script generates the keys
    key_counter,    \* entry_counter, or i
    key_log         \* the keys in the order they were generated

progVars == <<program, pc, cred_found, now, exit_code, db_test, db_logs, db_live,
              prior_logs, entry_counter, last, flat, cycles, live_failures,
              log_failures, failed_keys, num_points, loop_i, logs, spiked>>
sigVars == <<chan, value, entry_index, reflected, sample_N, sample_i, sample,
             sample_spike>>
keyVars == <<key_program, key_counter, key_log>>
vars == <<progVars, sigVars, keyVars>>

-----------------------------------------------------------------------------
(* Bounds of the model *)

\* loop cycles of the live generator in Spec
MaxCycles == 3
\* num_points of simulate_series in Spec
MaxPoints == 3
\* calls of generate_log_entry followed for the vibration channel
MaxIndex == 2000
\* num_points of the series sampled in SpecSignal
MaxSeries == 95
\* keys generated in SpecKeys
MaxKeys == 105

-----------------------------------------------------------------------------
(* Fixed point arithmetic *)

\* ticks per unit: the live values and every stored value are in ticks
Scale == 10^5
\* fine units per unit: math.sin and the intermediate values of simulate_series
Fine == 10^7
\* pi/2 in fine units
HalfPi == 15707963

NoExit == 0 - 1
\* no script, no channel
None == "None"
\* a database node that holds nothing, a variable not yet assigned
Absent == <<>>

Min(a, b) == IF a < b THEN a ELSE b
Max(a, b) == IF a > b THEN a ELSE b

\* a / d rounded to the nearest integer, d > 0
RDiv(a, d) == (a + d \div 2) \div d

\* (n * x) / d rounded to the nearest integer, for small integers n and d > 0
Frac(n, d, x) == (x \div d) * n + RDiv((x % d) * n, d)

\* the product of two quantities in fine units, in fine units, computed in four
\* digit limbs so that no intermediate value leaves 32 bits
Mul(a, b) ==
    LET a1 == a \div 10000
        a0 == a % 10000
        b1 == b \div 10000
        b0 == b % 10000
    IN  a1 * b1 * 10 + RDiv(a1 * b0 + a0 * b1 + RDiv(a0 * b0, 10000), 1000)

\* round(x, k): the multiples of q nearest to x (two of them at an exact tie)
RoundTo(x, q) ==
    LET lo == (x \div q) * q
        r == x - lo
    IN  IF 2 * r < q THEN {lo}
        ELSE IF 2 * r > q THEN {lo + q}
        ELSE {lo, lo + q}

\* The values in fine units follow the floats of the code to within these many
\* fine units (the sine is held to seven decimals and the factors 70 and 400
\* multiply what it lacks).  Measured against the interpreter for every sample
\* of every series of up to 700 samples and every entry_index up to 4000, and
\* doubled.
Tolerance ==
    [current |-> 260, voltage |-> 420, frequency |-> 1, pf |-> 3,
     temperature |-> 12, vibration |-> 8, base_vib |-> 3]

\* round(x', k) for a float x' that the fixed point value x follows to within
\* tol: the multiples of q it can give (two of them when x is within tol of a tie)
RoundNear(x, q, tol) == RoundTo(x - tol, q) \cup RoundTo(x + tol, q)

\* sin of n/q of a quarter turn, 0 <= n <= q, by its Taylor series to x^11
SinQuarter(n, q) ==
    LET th == Frac(n, q, HalfPi)
        z == Mul(th, th)
        t5 == Fine - RDiv(z, 110)
        t4 == Fine - RDiv(Mul(z, t5), 72)
        t3 == Fine - RDiv(Mul(z, t4), 42)
        t2 == Fine - RDiv(Mul(z, t3), 20)
        t1 == Fine - RDiv(Mul(z, t2), 6)
    IN  Mul(th, t1)

\* math.sin(2 * math.pi * p / q) in fine units, p >= 0, q > 0
Sin(p, q) ==
    LET r == (4 * p) % (4 * q)
    IN  IF r <= q THEN SinQuarter(r, q)
        ELSE IF r <= 2 * q THEN SinQuarter(2 * q - r, q)
        ELSE IF r <= 3 * q THEN 0 - SinQuarter(r - 2 * q, q)
        ELSE 0 - SinQuarter(4 * q - r, q)

-----------------------------------------------------------------------------
(* live_updater.py: the signal model *)

\* the arguments (low, high, max_delta) of each _step call and the baselines
Channels ==
    [I1 |-> [base |-> 7200000, low |-> 6000000, high |-> 9000000, max_delta |-> 25000],
     I2 |-> [base |-> 7250000, low |-> 6000000, high |-> 9000000, max_delta |-> 25000],
     I3 |-> [base |-> 7150000, low |-> 6000000, high |-> 9000000, max_delta |-> 25000],
     V1 |-> [base |-> 40000000, low |-> 39500000, high |-> 41000000, max_delta |-> 30000],
     V2 |-> [base |-> 40100000, low |-> 39500000, high |-> 41000000, max_delta |-> 30000],
     V3 |-> [base |-> 39900000, low |-> 39500000, high |-> 41000000, max_delta |-> 30000],
     frequency |-> [base |-> 5000000, low |-> 4980000, high |-> 5020000, max_delta |-> 500],
     pf |-> [base |-> 90000, low |-> 83000, high |-> 96000, max_delta |-> 200],
     T1 |-> [base |-> 5500000, low |-> 4500000, high |-> 7500000, max_delta |-> 20000],
     T2 |-> [base |-> 5000000, low |-> 4000000, high |-> 6500000, max_delta |-> 20000],
     vibration |-> [base |-> 210000, low |-> 120000, high |-> 300000, max_delta |-> 4000]]

ChannelNames == DOMAIN Channels
\* the channels generate_log_entry advances with _step from their last value
WalkChannels == ChannelNames \ {"pf", "vibration"}

\* random.uniform(-max_delta, max_delta): the draws followed, in percent of max_delta
DeltaPercents == {-100, -47, -3, 0, 3, 47, 100}
Uniform(max_delta) == {(max_delta * p) \div 100 : p \in DeltaPercents}

\* StepRaw without lines 98-101 (seeded fault: the value is not bounced back)
StepRawNoBounce(v, low, high, delta) == v + delta

\* _step before its final round(value, 2), with delta the random.uniform draw
StepRaw(v, low, high, delta) ==
    LET v1 == v + delta
        v2 == IF v1 < low THEN low + Frac(3, 10, low - v1) ELSE v1
    IN  IF v2 > high THEN high - Frac(3, 10, v2 - high) ELSE v2

\* _step(value, low, high, max_delta) for the draw delta: the values it can return,
\* all four arguments in ticks
_step(v, low, high, delta) == RoundTo(StepRaw(v, low, high, delta), Scale \div 100)

\* whether the draw takes the value over an edge, so that _step bounces it back
Bounces(v, low, high, delta) == v + delta < low \/ v + delta > high

\* line 122: last_pf + random.uniform(-0.002, 0.002), clamped, round(.., 3)
PfClamp(v, delta) == Max(Channels.pf.low, Min(Channels.pf.high, v + delta))
StepPf(v, delta) == RoundTo(PfClamp(v, delta), Scale \div 1000)

\* base_vib of generate_log_entry(entry_index), in fine units: t = entry_index / 40.0,
\* slow = sin(2 pi 0.06 t) = sin(2 pi 3 entry_index / 2000),
\* mid = sin(2 pi 0.32 t) = sin(2 pi entry_index / 125)
BaseVib(index) ==
    2 * Fine + Frac(35, 100, Sin(3 * index, 2000)) + Frac(20, 100, Sin(index, 125))

\* line 132: _step(base_vib, 1.2, 3.0, 0.04) for the draw delta, in ticks; the step
\* is taken in fine units, where base_vib lives
StepVib(index, delta) ==
    LET u == Fine \div Scale
        c == Channels.vibration
    IN  { r \div u : r \in RoundNear(StepRaw(BaseVib(index), c.low * u, c.high * u,
                                             delta * u),
                                     Fine \div 100, Tolerance.base_vib) }

\* lines 98-101 in the _step call of line 132: whether base_vib + delta is over
\* an edge of [1.2, 3.0], in fine units
VibBounces(index, delta) ==
    LET u == Fine \div Scale
        c == Channels.vibration
    IN  Bounces(BaseVib(index), c.low * u, c.high * u, delta * u)

\* the values generate_log_entry(index) can give channel c, whose last value is v,
\* when the channel's random draw is delta
NextValue(c, v, index, delta) ==
    IF c = "pf" THEN StepPf(v, delta)
    ELSE IF c = "vibration" THEN StepVib(index, delta)
    ELSE _step(v, Channels[c].low, Channels[c].high, delta)

-----------------------------------------------------------------------------
(* Log keys *)

\* the decimal digits of n >= 0
RECURSIVE Digits(_)
Digits(n) == IF n < 10 THEN <<n>> ELSE Append(Digits(n \div 10), n % 10)

\* format(n, "0<width>d"): zeros in front up to the width, never a cut
RECURSIVE ZeroPad(_, _)
ZeroPad(ds, width) == IF Len(ds) >= width THEN ds ELSE ZeroPad(<<0>> \o ds, width)

\* LiveKey of a counter that wraps around (seeded fault: keys repeat)
LiveKeyWrapped(n) == ZeroPad(Digits(n % 2), 2)

\* f"entry_{entry_counter:02d}" of live_updater.py
LiveKey(n) == ZeroPad(Digits(n), 2)

\* f"entry_{i:03}" of simulate_motor_500.py
BatchKey(n) == ZeroPad(Digits(n), 3)

\* a < b as Python compares the two key strings
KeyLess(a, b) ==
    \/ Len(a) < Len(b) /\ \A k \in 1..Len(a) : a[k] = b[k]
    \/ \E k \in 1..Min(Len(a), Len(b)) :
          /\ a[k] < b[k]
          /\ \A j \in 1..(k - 1) : a[j] = b[j]

-----------------------------------------------------------------------------
(* simulate_motor_500.py: the signal model *)

\* the largest power of two below m, m >= 2
RECURSIVE Pow2Below(_)
Pow2Below(m) == IF m <= 2 THEN 1 ELSE 2 * Pow2Below((m + 1) \div 2)

\* int(num_points * 0.7).  The double 0.7 is 0.7 - 0.4 * 2^-53, so the product is
\* below 7 n / 10; when 7 n / 10 is an integer m, the product rounds to the double
\* below m, and int() gives m - 1, as soon as the deficit (4 m / 7) * 2^-53 exceeds
\* half the spacing 2^(k-52) of the doubles in [2^k, m), that is 4 m > 7 * 2^k.
SpikeFrom(n) ==
    LET m == (7 * n) \div 10
    IN  IF n % 10 = 0 /\ m >= 2 /\ 4 * m > 7 * Pow2Below(m) THEN m - 1 ELSE m

\* random.gauss(mu, sigma) for a draw of zc hundredths of sigma from the mean
Gauss(mu, sigma, zc) == mu + Frac(zc, 100, sigma)

\* the random.gauss draws of one loop pass, in hundredths of sigma
NoiseVectors ==
    { [I1 |-> 0, I2 |-> 0, I3 |-> 0, V1 |-> 0, V2 |-> 0, V3 |-> 0,
       frequency |-> 0, pf |-> 0, T1 |-> 0, T2 |-> 0, vibration |-> 0],
      [I1 |-> 137, I2 |-> -88, I3 |-> 42, V1 |-> -151, V2 |-> 63, V3 |-> 209,
       frequency |-> -73, pf |-> 118, T1 |-> 95, T2 |-> -46, vibration |-> 161],
      [I1 |-> -300, I2 |-> -300, I3 |-> -300, V1 |-> -300, V2 |-> -300, V3 |-> -300,
       frequency |-> -300, pf |-> -4000, T1 |-> -300, T2 |-> -300, vibration |-> -300],
      [I1 |-> 300, I2 |-> 300, I3 |-> 300, V1 |-> 300, V2 |-> 300, V3 |-> 300,
       frequency |-> 300, pf |-> 4000, T1 |-> 300, T2 |-> 300, vibration |-> 300] }

\* random.uniform(1.0, 2.5): the spike magnitudes followed, in fine units
SpikeSizes == {Fine, Frac(7, 4, Fine), Frac(5, 2, Fine)}

\* line 99: the spike may be added to sample i (random.random() < 0.05 permitting)
SpikeEligible(i, n) == i > SpikeFrom(n)

\* what is added to the vibration of sample i: 0 for no spike
SpikeDraws(i, n) == {0} \cup (IF SpikeEligible(i, n) THEN SpikeSizes ELSE {})

\* lines 88-89: pf before it is clamped, in fine units
BatchPfRaw(load_wave, degradation, noise) ==
    (Frac(94, 100, Fine) - Frac(4, 100, Fine - load_wave))
        - Frac(5, 100, degradation - Fine) + noise

\* BatchPf without line 90 (seeded fault: no clamp)
BatchPfNoClamp(load_wave, degradation, noise) ==
    BatchPfRaw(load_wave, degradation, noise)

\* lines 88-90: pf before round(pf, 2), in fine units
BatchPf(load_wave, degradation, noise) ==
    Max(Frac(75, 100, Fine),
        Min(Frac(98, 100, Fine), BatchPfRaw(load_wave, degradation, noise)))

\* lines 62-117: the entries the loop pass for sample i of n can build, for the
\* gauss draws z and the spike addition spike; start is start_time in seconds.
\* The pass is computed in fine units and its rounded values stored in ticks.
\* The three voltages are held as their distance from base_voltage = 400.0,
\* which round(V, 2) leaves alone.
BatchEntries(i, n, z, spike, start) ==
    LET t_norm == Frac(i, n, Fine)
        warmup == Min(Fine, Frac(i, 100, Fine))
        load_wave == Frac(8, 10, Fine) + Frac(4, 10, Sin(3 * i, n))
        degradation == Fine + Frac(3, 10, Max(0, t_norm - Frac(7, 10, Fine)))
        sigma_I == Frac(3, 100, Fine)
        I1 == Mul(Mul(70 * load_wave, Gauss(Fine, sigma_I, z.I1)), degradation)
        I2 == Mul(Mul(Mul(70 * Frac(103, 100, Fine), load_wave),
                      Gauss(Fine, sigma_I, z.I2)), degradation)
        I3 == Mul(Mul(Mul(70 * Frac(97, 100, Fine), load_wave),
                      Gauss(Fine, sigma_I, z.I3)), degradation)
        volt_ripple == Frac(1, 100, Sin(5 * i, n))
        V1 == 400 * volt_ripple + Gauss(0, 2 * Fine, z.V1)
        V2 == 0 - 200 * volt_ripple + Gauss(0, 2 * Fine, z.V2)
        V3 == Frac(400, 3, volt_ripple) + Gauss(0, 2 * Fine, z.V3)
        frequency == 50 * Fine + Gauss(0, Frac(5, 100, Fine), z.frequency)
        pf == BatchPf(load_wave, degradation, Gauss(0, Frac(1, 100, Fine), z.pf))
        T1 == 35 * Fine + 45 * warmup + 8 * (degradation - Fine)
                 + Gauss(0, Fine, z.T1)
        T2 == T1 - 4 * Fine + Gauss(0, Fine, z.T2)
        vib_base == Frac(3, 2, Fine) + Frac(8, 10, load_wave)
                       + 4 * (degradation - Fine)
        vibration == vib_base + Gauss(0, Frac(2, 10, Fine), z.vibration) + spike
        u == Fine \div Scale
        Round2(x, tol) == { r \div u : r \in RoundNear(x, Fine \div 100, tol) }
        tol == Tolerance
        base_voltage == 400 * Scale
    IN  { [I1 |-> a1, I2 |-> a2, I3 |-> a3,
           V1 |-> base_voltage + b1, V2 |-> base_voltage + b2,
           V3 |-> base_voltage + b3,
           frequency |-> f, pf |-> p, T1 |-> c1, T2 |-> c2, vibration |-> v,
           timestamp |-> start + 10 * i] :
          a1 \in Round2(I1, tol.current), a2 \in Round2(I2, tol.current),
          a3 \in Round2(I3, tol.current),
          b1 \in Round2(V1, tol.voltage), b2 \in Round2(V2, tol.voltage),
          b3 \in Round2(V3, tol.voltage),
          f \in Round2(frequency, tol.frequency), p \in Round2(pf, tol.pf),
          c1 \in Round2(T1, tol.temperature), c2 \in Round2(T2, tol.temperature),
          v \in Round2(vibration, tol.vibration) }

-----------------------------------------------------------------------------
(* The variables of a specification that is not running: each specification *)
(* below follows one part of the state and holds the rest at these values.   *)

ProgOff ==
    /\ program = None /\ pc = "off" /\ cred_found = FALSE /\ now = 0
    /\ exit_code = NoExit /\ db_test = Absent /\ db_logs = Absent /\ db_live = Absent
    /\ prior_logs = Absent /\ entry_counter = 0 /\ last = Absent /\ flat = Absent
    /\ cycles = 0 /\ live_failures = 0 /\ log_failures = 0 /\ failed_keys = {}
    /\ num_points = 0 /\ loop_i = 0 /\ logs = Absent /\ spiked = {}

SigOff ==
    /\ chan = None /\ value = 0 /\ entry_index = 0 /\ reflected = FALSE
    /\ sample_N = 0 /\ sample_i = 0 /\ sample = Absent /\ sample_spike = FALSE

KeysOff == key_program = None /\ key_counter = 0 /\ key_log = <<>>

\* the wall clock at process start, seconds
StartTime == 1000

-----------------------------------------------------------------------------
(* SpecSignal: the signal model, one channel or one series at a time.       *)
(* The channels of generate_log_entry do not read one another, so each is   *)
(* followed alone from its baseline through any number of calls; the loop   *)
(* body of simulate_series reads nothing of the earlier passes, so each     *)
(* pass is followed alone for every index of every series length.          *)

SigInit ==
    /\ ProgOff /\ KeysOff
    /\ \/ /\ chan \in ChannelNames
          /\ value = Channels[chan].base
          /\ sample_N = 0
       \/ /\ chan = "batch"
          /\ value = 0
          /\ sample_N \in 1..MaxSeries
    /\ entry_index = 0 /\ reflected = FALSE
    /\ sample_i = 0 /\ sample = Absent /\ sample_spike = FALSE

\* one call of generate_log_entry, seen from channel chan.  entry_index is
\* entry_counter, which the loop raises only in the cycles whose live_reading
\* write succeeds; it is followed for the one channel that reads it.
StepChannel ==
    /\ chan \in ChannelNames
    /\ chan = "vibration" => entry_index < MaxIndex
    /\ \E delta \in Uniform(Channels[chan].max_delta) :
          /\ value' \in NextValue(chan, value, entry_index, delta)
          /\ reflected' =
                IF chan = "vibration"
                THEN VibBounces(entry_index, delta)
                ELSE Bounces(value, Channels[chan].low, Channels[chan].high, delta)
    /\ entry_index' \in IF chan = "vibration"
                        THEN {entry_index, entry_index + 1}
                        ELSE {entry_index}
    /\ UNCHANGED <<chan, sample_N, sample_i, sample, sample_spike>>
    /\ UNCHANGED <<progVars, keyVars>>

\* one pass of the loop of simulate_series(sample_N)
SampleSeries ==
    /\ chan = "batch"
    /\ sample_i < sample_N
    /\ sample_i' = sample_i + 1
    /\ \E z \in NoiseVectors : \E spike \in SpikeDraws(sample_i + 1, sample_N) :
          /\ sample' \in BatchEntries(sample_i + 1, sample_N, z, spike,
                                      StartTime - 10 * sample_N)
          /\ sample_spike' = (spike > 0)
    /\ UNCHANGED <<chan, value, entry_index, reflected, sample_N>>
    /\ UNCHANGED <<progVars, keyVars>>

SigNext == StepChannel \/ SampleSeries

SpecSignal == SigInit /\ [][SigNext]_vars

-----------------------------------------------------------------------------
(* SpecKeys: the keys of the log, in the order a run generates them when    *)
(* every write succeeds.                                                    *)

KeysInit ==
    /\ ProgOff /\ SigOff
    /\ key_program \in {"live_updater", "simulate_motor_500"}
    /\ key_counter = 0 /\ key_log = <<>>

\* lines 168-169 of live_updater.py
LiveNextKey ==
    /\ key_program = "live_updater"
    /\ key_counter < MaxKeys
    /\ key_counter' = key_counter + 1
    /\ key_log' = Append(key_log, LiveKey(key_counter + 1))
    /\ UNCHANGED <<key_program, progVars, sigVars>>

\* lines 61 and 104 of simulate_motor_500.py
BatchNextKey ==
    /\ key_program = "simulate_motor_500"
    /\ key_counter < MaxKeys
    /\ key_counter' = key_counter + 1
    /\ key_log' = Append(key_log, BatchKey(key_counter + 1))
    /\ UNCHANGED <<key_program, progVars, sigVars>>

KeysNext == LiveNextKey \/ BatchNextKey

SpecKeys == KeysInit /\ [][KeysNext]_vars

-----------------------------------------------------------------------------
(* Spec: a run of live_updater.py or of simulate_motor_500.py *)

envVars == <<program, cred_found, prior_logs>>
dbVars == <<db_test, db_logs, db_live>>
liveVars == <<entry_counter, last, flat>>
histVars == <<cycles, live_failures, log_failures, failed_keys>>
batchVars == <<num_points, loop_i, logs, spiked>>

\* lines 81-91: the baselines
Baselines == [c \in ChannelNames |-> Channels[c].base]

\* an entry a previous run left in motor01/logs
OldEntry == [c \in ChannelNames |-> Channels[c].base] @@ [timestamp |-> StartTime - 60]

\* motor01/logs before the process starts: empty, left by a live run, left by a
\* batch run
PriorLogs ==
    { Absent,
      [k \in {LiveKey(1), LiveKey(2), LiveKey(7)} |-> OldEntry],
      [k \in {BatchKey(1), BatchKey(2)} |-> OldEntry] }

\* the random.uniform draws of one generate_log_entry call, in percent of each
\* channel's max_delta
DeltaVectors ==
    { [c \in ChannelNames |-> 100],
      [c \in ChannelNames |-> IF c \in {"I1", "V2", "T1", "pf"} THEN -47 ELSE 3] }

\* lines 105-148: the entries generate_log_entry(index) can return from the last
\* values lst, for the draws d, at wall clock ts
GenerateLogEntry(lst, index, d, ts) ==
    LET N(c) == NextValue(c, lst[c], index, (Channels[c].max_delta * d[c]) \div 100)
    IN  { [I1 |-> a1, I2 |-> a2, I3 |-> a3, V1 |-> b1, V2 |-> b2, V3 |-> b3,
           frequency |-> f, pf |-> p, T1 |-> c1, T2 |-> c2, vibration |-> v,
           timestamp |-> ts] :
          a1 \in N("I1"), a2 \in N("I2"), a3 \in N("I3"),
          b1 \in N("V1"), b2 \in N("V2"), b3 \in N("V3"),
          f \in N("frequency"), p \in N("pf"),
          c1 \in N("T1"), c2 \in N("T2"), v \in N("vibration") }

\* the live_reading payload built from an entry (both scripts)
Payload(e) ==
    [current |-> [I1 |-> e.I1, I2 |-> e.I2, I3 |-> e.I3],
     voltage |-> [V1 |-> e.V1, V2 |-> e.V2, V3 |-> e.V3],
     temperature |-> [T1 |-> e.T1, T2 |-> e.T2],
     frequency |-> e.frequency,
     vibration |-> e.vibration,
     timestamp |-> e.timestamp]

\* ref.update({key: entry}) on a collection
Update(coll, key, entry) ==
    [k \in DOMAIN coll \cup {key} |-> IF k = key THEN entry ELSE coll[k]]

\* raise SystemExit(code), an uncaught exception (code 1), or the end of the script
Exit(code) == pc' = "exit" /\ exit_code' = code

Init ==
    /\ SigOff /\ KeysOff
    /\ program \in {"live_updater", "simulate_motor_500"}
    /\ pc = "credentials"
    /\ cred_found \in BOOLEAN
    /\ now = StartTime
    /\ exit_code = NoExit
    /\ db_test = Absent /\ db_live = Absent
    /\ db_logs \in PriorLogs /\ prior_logs = db_logs
    /\ entry_counter = 0 /\ last = Baselines /\ flat = Absent
    /\ cycles = 0 /\ live_failures = 0 /\ log_failures = 0 /\ failed_keys = {}
    /\ num_points \in (IF program = "simulate_motor_500" THEN 0..MaxPoints ELSE {0})
    /\ loop_i = 0 /\ logs = Absent /\ spiked = {}

\* CheckCredentials going on without a key file (seeded fault)
CheckCredentialsLenient ==
    /\ pc = "credentials"
    /\ pc' = IF program = "live_updater" THEN "selftest" ELSE "simulate"
    /\ UNCHANGED exit_code
    /\ UNCHANGED <<envVars, now, dbVars, liveVars, histVars, batchVars>>
    /\ UNCHANGED <<sigVars, keyVars>>

\* live_updater.py lines 39-43, simulate_motor_500.py lines 33-36
CheckCredentials ==
    /\ pc = "credentials"
    /\ IF cred_found
       THEN /\ pc' = IF program = "live_updater" THEN "selftest" ELSE "simulate"
            /\ UNCHANGED exit_code
       ELSE Exit(1)
    /\ UNCHANGED <<envVars, now, dbVars, liveVars, histVars, batchVars>>
    /\ UNCHANGED <<sigVars, keyVars>>

\* live_updater.py lines 54-65: set, get and delete motor01/_test; any of them
\* raising ends the process with SystemExit(1)
SelfTest ==
    /\ pc = "selftest"
    /\ \E outcome \in {"ok", "set_raises", "get_raises", "delete_raises"} :
          CASE outcome = "ok" ->
                  /\ db_test' = Absent
                  /\ pc' = "clear_logs"
                  /\ UNCHANGED exit_code
            [] outcome = "set_raises" ->
                  /\ UNCHANGED db_test
                  /\ Exit(1)
            [] OTHER ->
                  /\ db_test' = [ping |-> now]
                  /\ Exit(1)
    /\ UNCHANGED <<envVars, now, db_logs, db_live, liveVars, histVars, batchVars>>
    /\ UNCHANGED <<sigVars, keyVars>>

\* ClearLogs that deletes nothing (seeded fault)
ClearLogsOmitted ==
    /\ pc = "clear_logs"
    /\ \/ /\ UNCHANGED db_logs
          /\ pc' = "generate"
          /\ UNCHANGED exit_code
       \/ /\ UNCHANGED db_logs
          /\ Exit(1)
    /\ UNCHANGED <<envVars, now, db_test, db_live, liveVars, histVars, batchVars>>
    /\ UNCHANGED <<sigVars, keyVars>>

\* live_updater.py lines 67-70: logs_ref.delete(), outside any try; an exception
\* ends the process with a traceback, exit code 1
ClearLogs ==
    /\ pc = "clear_logs"
    /\ \/ /\ db_logs' = Absent
          /\ pc' = "generate"
          /\ UNCHANGED exit_code
       \/ /\ UNCHANGED db_logs
          /\ Exit(1)
    /\ UNCHANGED <<envVars, now, db_test, db_live, liveVars, histVars, batchVars>>
    /\ UNCHANGED <<sigVars, keyVars>>

\* live_updater.py line 153: flat = generate_log_entry(entry_counter)
Generate ==
    /\ pc = "generate"
    /\ cycles < MaxCycles
    /\ \E d \in DeltaVectors :
          flat' \in GenerateLogEntry(last, entry_counter, d, now)
    /\ last' = [c \in ChannelNames |-> flat'[c]]
    /\ pc' = "write_live"
    /\ UNCHANGED <<envVars, now, exit_code, dbVars, entry_counter, histVars, batchVars>>
    /\ UNCHANGED <<sigVars, keyVars>>

\* WriteLive whose exception is not caught (seeded fault)
WriteLiveFatal ==
    /\ pc = "write_live"
    /\ \/ /\ db_live' = Payload(flat)
          /\ pc' = "count"
          /\ UNCHANGED <<live_failures, exit_code>>
       \/ /\ UNCHANGED db_live
          /\ live_failures' = live_failures + 1
          /\ Exit(1)
    /\ UNCHANGED <<envVars, now, db_test, db_logs, liveVars, cycles,
                   log_failures, failed_keys, batchVars>>
    /\ UNCHANGED <<sigVars, keyVars>>

\* live_updater.py lines 157-165: live_ref.set(payload); an exception leaves the
\* try block for the handler of line 172
WriteLive ==
    /\ pc = "write_live"
    /\ \/ /\ db_live' = Payload(flat)
          /\ pc' = "count"
          /\ UNCHANGED live_failures
       \/ /\ UNCHANGED db_live
          /\ live_failures' = live_failures + 1
          /\ pc' = "sleep"
    /\ UNCHANGED <<envVars, now, exit_code, db_test, db_logs, liveVars, cycles,
                   log_failures, failed_keys, batchVars>>
    /\ UNCHANGED <<sigVars, keyVars>>

\* CountEntry raising the counter by two (seeded fault)
CountEntrySkips ==
    /\ pc = "count"
    /\ entry_counter' = entry_counter + 2
    /\ pc' = "write_log"
    /\ UNCHANGED <<envVars, now, exit_code, dbVars, last, flat, histVars, batchVars>>
    /\ UNCHANGED <<sigVars, keyVars>>

\* live_updater.py line 168: entry_counter += 1
CountEntry ==
    /\ pc = "count"
    /\ entry_counter' = entry_counter + 1
    /\ pc' = "write_log"
    /\ UNCHANGED <<envVars, now, exit_code, dbVars, last, flat, histVars, batchVars>>
    /\ UNCHANGED <<sigVars, keyVars>>

\* live_updater.py lines 169-173: logs_ref.update({key: flat})
WriteLog ==
    /\ pc = "write_log"
    /\ \/ /\ db_logs' = Update(db_logs, LiveKey(entry_counter), flat)
          /\ UNCHANGED <<log_failures, failed_keys>>
       \/ /\ UNCHANGED db_logs
          /\ log_failures' = log_failures + 1
          /\ failed_keys' = failed_keys \cup {LiveKey(entry_counter)}
    /\ pc' = "sleep"
    /\ UNCHANGED <<envVars, now, exit_code, db_test, db_live, liveVars, cycles,
                   live_failures, batchVars>>
    /\ UNCHANGED <<sigVars, keyVars>>

\* live_updater.py line 175: time.sleep(5), then the next pass of while True
Sleep ==
    /\ pc = "sleep"
    /\ now' = now + 5
    /\ cycles' = cycles + 1
    /\ pc' = "generate"
    /\ UNCHANGED <<envVars, exit_code, dbVars, liveVars, live_failures, log_failures,
                   failed_keys, batchVars>>
    /\ UNCHANGED <<sigVars, keyVars>>

LoopPositions == {"generate", "write_live", "count", "write_log", "sleep"}

\* live_updater.py lines 176-177: KeyboardInterrupt anywhere in the loop; the
\* script prints and ends
Interrupt ==
    /\ pc \in LoopPositions
    /\ Exit(0)
    /\ UNCHANGED <<envVars, now, dbVars, liveVars, histVars, batchVars>>
    /\ UNCHANGED <<sigVars, keyVars>>

\* simulate_motor_500.py lines 61-117: one pass of the loop of simulate_series
SimulatePass ==
    /\ pc = "simulate"
    /\ loop_i < num_points
    /\ loop_i' = loop_i + 1
    /\ \E z \in NoiseVectors : \E spike \in SpikeDraws(loop_i + 1, num_points) :
          \E e \in BatchEntries(loop_i + 1, num_points, z, spike,
                                now - 10 * num_points) :
             /\ logs' = Update(logs, BatchKey(loop_i + 1), e)
             /\ spiked' = IF spike > 0 THEN spiked \cup {loop_i + 1} ELSE spiked
    /\ UNCHANGED <<envVars, pc, now, exit_code, dbVars, liveVars, histVars, num_points>>
    /\ UNCHANGED <<sigVars, keyVars>>

\* simulate_motor_500.py lines 119 and 122-123: return logs
ReturnSeries ==
    /\ pc = "simulate"
    /\ loop_i = num_points
    /\ pc' = "set_logs"
    /\ UNCHANGED <<envVars, now, exit_code, dbVars, liveVars, histVars, batchVars>>
    /\ UNCHANGED <<sigVars, keyVars>>

\* SetLogs that updates instead of replacing (seeded fault)
SetLogsMerging ==
    /\ pc = "set_logs"
    /\ \/ /\ db_logs' = [k \in DOMAIN db_logs \cup DOMAIN logs |->
                            IF k \in DOMAIN logs THEN logs[k] ELSE db_logs[k]]
          /\ pc' = "set_live"
          /\ UNCHANGED exit_code
       \/ /\ UNCHANGED db_logs
          /\ Exit(1)
    /\ UNCHANGED <<envVars, now, db_test, db_live, liveVars, histVars, batchVars>>
    /\ UNCHANGED <<sigVars, keyVars>>

\* simulate_motor_500.py line 125: logs_ref.set(logs), outside any try; an
\* exception ends the process with a traceback, exit code 1
SetLogs ==
    /\ pc = "set_logs"
    /\ \/ /\ db_logs' = logs
          /\ pc' = "set_live"
          /\ UNCHANGED exit_code
       \/ /\ UNCHANGED db_logs
          /\ Exit(1)
    /\ UNCHANGED <<envVars, now, db_test, db_live, liveVars, histVars, batchVars>>
    /\ UNCHANGED <<sigVars, keyVars>>

\* simulate_motor_500.py lines 129-144: the last entry goes to live_reading;
\* logs[latest_key] raises KeyError when the series is empty
SetLatest ==
    /\ pc = "set_live"
    /\ LET latest_key == BatchKey(Cardinality(DOMAIN logs))
       IN  IF latest_key \notin DOMAIN logs
           THEN /\ UNCHANGED db_live
                /\ Exit(1)
           ELSE \/ /\ db_live' = Payload(logs[latest_key])
                   /\ Exit(0)
                \/ /\ UNCHANGED db_live
                   /\ Exit(1)
    /\ UNCHANGED <<envVars, now, db_test, db_logs, liveVars, histVars, batchVars>>
    /\ UNCHANGED <<sigVars, keyVars>>

Next ==
    \/ CheckCredentials
    \/ SelfTest
    \/ ClearLogs
    \/ Generate
    \/ WriteLive
    \/ CountEntry
    \/ WriteLog
    \/ Sleep
    \/ Interrupt
    \/ SimulatePass
    \/ ReturnSeries
    \/ SetLogs
    \/ SetLatest

Spec == Init /\ [][Next]_vars

-----------------------------------------------------------------------------
(* Properties *)

Live == program = "live_updater"
Batch == program = "simulate_motor_500"

\* an entry written by this run carries a timestamp of this run
ThisRun(e) == e.timestamp >= StartTime

\* C1 (SpecSignal): from its baseline and through any number of
\* generate_log_entry calls, every channel stepped by _step stays inside its band
\* [low, high]: I1, I2, I3 in [60, 90], V1, V2, V3 in [395, 410], frequency in
\* [49.8, 50.2], T1 in [45, 75], T2 in [40, 65], vibration in [1.2, 3.0].
C1_LiveBands ==
    chan \in ChannelNames \ {"pf"} =>
        /\ Channels[chan].low <= value
        /\ value <= Channels[chan].high

\* C1: a current has walked to the lower edge of its band and the last draw took
\* it across, so that _step bounced it back
C1_Reflected ==
    /\ chan = "I1"
    /\ reflected
    /\ value <= Channels[chan].low + Channels[chan].max_delta

\* C2 as stated (Spec): at every point of a run of the live generator the log
\* collection holds only entries written by this run.
C2_OnlyThisRunAtEveryPoint ==
    Live => \A k \in DOMAIN db_logs : ThisRun(db_logs[k])

\* C2 (Spec), amended: nothing is written to the log before the deletion, and from
\* the completion of the deletion on (in the loop and after an interrupt) the log
\* holds only entries written by this run; until then, and in a run that ends
\* during startup, the log is what it was before the process started.
C2_ClearedBeforeFirstWrite ==
    Live =>
        IF pc \in LoopPositions \/ exit_code = 0
        THEN \A k \in DOMAIN db_logs : ThisRun(db_logs[k])
        ELSE db_logs = prior_logs /\ entry_counter = 0

\* C2: the log held old entries, among them entry_01, and now holds this run's
\* entry_01
C2_OldEntriesReplaced ==
    /\ Live
    /\ LiveKey(1) \in DOMAIN prior_logs
    /\ LiveKey(1) \in DOMAIN db_logs
    /\ ThisRun(db_logs[LiveKey(1)])

\* the numbers 1..n as live log keys
LiveKeys(n) == {LiveKey(j) : j \in 1..n}

\* C3 as stated (Spec): after k cycles of the loop, whether or not their writes
\* failed, the log holds exactly the k entries numbered 1 through k.
C3_OneEntryEveryCycle ==
    Live /\ pc = "generate" => DOMAIN db_logs = LiveKeys(cycles)

\* C3 (Spec), amended: after k cycles the log holds one entry for each cycle whose
\* two writes both succeeded, and exactly the entries 1..k when no write failed; a
\* cycle whose live_reading write failed added no entry and used no number, a
\* cycle whose log write failed added no entry and its number stays unused.
C3_OneEntryPerSuccessfulCycle ==
    Live /\ pc = "generate" =>
        /\ entry_counter = cycles - live_failures
        /\ Cardinality(failed_keys) = log_failures
        /\ failed_keys \subseteq LiveKeys(entry_counter)
        /\ DOMAIN db_logs = LiveKeys(entry_counter) \ failed_keys
        /\ Cardinality(DOMAIN db_logs) = cycles - live_failures - log_failures

\* C3: three cycles, one with a failed live_reading write, one with a failed log
\* write, one successful
C3_FailuresOfBothKinds ==
    /\ Live /\ pc = "generate"
    /\ cycles = 3 /\ live_failures = 1 /\ log_failures = 1
    /\ Cardinality(DOMAIN db_logs) = 1

\* C4 (Spec): a failed write never ends the loop.  The step in which a write
\* raises leads to the sleep with the process still running; the sleep is
\* followed by the next generate_log_entry call or by the interrupt; each cycle
\* writes the sample generated in that cycle, so a failed write is not repeated
\* (the key of a failed log write is never written); and the only way out of
\* the loop is the interrupt, with exit code 0.
C4_FailedWriteKeepsLooping ==
    /\ [][ (live_failures' # live_failures \/ log_failures' # log_failures)
              => pc' = "sleep" /\ exit_code' = NoExit ]_vars
    /\ [][ pc = "sleep" /\ pc' # "sleep"
              => pc' = "generate" \/ (pc' = "exit" /\ exit_code' = 0) ]_vars
    /\ [][ pc' = "write_live" /\ pc # "write_live"
              => pc = "generate" /\ flat'.timestamp = now' ]_vars
    /\ [][ pc = "write_live" /\ pc' = "count"
              => db_live' = Payload(flat) /\ flat.timestamp = now ]_vars
    /\ [][ Live /\ pc \in LoopPositions /\ pc' = "exit"
              => (exit_code' = 0) ]_vars
    /\ [](Live => failed_keys \cap DOMAIN db_logs = {})

\* C4: a cycle is under way after a cycle whose live_reading write failed and a
\* cycle whose log write failed
C4_CycleAfterFailures ==
    /\ Live /\ pc = "write_live"
    /\ live_failures >= 1 /\ log_failures >= 1

\* C5 (Spec): simulate_series(N) returns exactly N entries under the N distinct
\* keys entry_001 .. entry_N, the entry under the key of i being sample i, and
\* logs_ref.set leaves motor01/logs holding exactly these entries whatever it
\* held before.
C5_BatchSeries ==
    Batch /\ pc \in {"set_logs", "set_live"} =>
        /\ DOMAIN logs = {BatchKey(j) : j \in 1..num_points}
        /\ Cardinality(DOMAIN logs) = num_points
        /\ \A j \in 1..num_points :
              /\ Len(BatchKey(j)) >= 3
              /\ logs[BatchKey(j)].timestamp = now - 10 * num_points + 10 * j
        /\ pc = "set_live" => db_logs = logs

\* C5: a series of several samples has replaced a collection that held other keys
C5_SeriesReplacedOldLogs ==
    /\ Batch /\ pc = "set_live"
    /\ num_points >= 1
    /\ DOMAIN prior_logs \ DOMAIN logs # {}

\* the keys of a log sort, as strings, in the order they were generated
SortedAsGenerated(ks) ==
    \A j \in 1..(Len(ks) - 1) : KeyLess(ks[j], ks[j + 1])

\* C6 (SpecKeys): in the live path and in the batch path, for any number of
\* entries, sorting the log keys as strings yields the order of generation.
C6_KeysSortAsGenerated == SortedAsGenerated(key_log)

\* C7 (Spec): when the credential file is missing or the self-test raises, the
\* live generator ends at once with exit code 1, motor01/logs is as it was and
\* neither live_reading nor a log entry has been written; the loop ends only by
\* the interrupt, with exit code 0.
C7_ExitCodes ==
    /\ [][ Live /\ pc \in {"credentials", "selftest"} /\ pc' # pc
              => IF pc = "credentials" /\ ~cred_found
                 THEN pc' = "exit" /\ exit_code' = 1
                 ELSE (pc' = "exit" => exit_code' = 1) ]_vars
    /\ [][ Live /\ pc \in LoopPositions /\ pc' = "exit"
              => (exit_code' = 0) ]_vars
    /\ [](Live /\ ~cred_found => pc \in {"credentials", "exit"})
    /\ [](Live /\ exit_code = 1 =>
             /\ db_logs = prior_logs
             /\ db_live = Absent
             /\ entry_counter = 0)
    /\ [](Live /\ exit_code = 0 => cred_found /\ db_test = Absent)

\* C7: the self-test raised after writing motor01/_test; the old log is untouched
C7_SelfTestFailed ==
    /\ Live /\ pc = "exit" /\ exit_code = 1
    /\ cred_found
    /\ db_test # Absent
    /\ DOMAIN db_logs # {}

\* C8 (Spec): in the loop of the live generator no step changes or removes an
\* entry the log holds, and every log write goes to a key that no earlier cycle
\* wrote or tried to write.
C8_EntriesNeverRevised ==
    /\ [][ Live /\ pc \in LoopPositions =>
              \A k \in DOMAIN db_logs :
                 k \in DOMAIN db_logs' /\ db_logs'[k] = db_logs[k] ]_vars
    /\ [](Live /\ pc = "write_log" =>
             LiveKey(entry_counter) \notin DOMAIN db_logs \cup failed_keys)
    /\ [][ entry_counter' >= entry_counter ]_vars

\* C8: two entries are in the log, written in cycles around one whose log write
\* failed
C8_SeveralEntriesKept ==
    /\ Live /\ pc = "sleep"
    /\ Cardinality(DOMAIN db_logs) >= 2
    /\ log_failures >= 1

\* C9 (SpecSignal): the power factor is clamped: in [0.83, 0.96] through any number
\* of generate_log_entry calls, in [0.75, 0.98] for every sample of every series,
\* whatever the noise.
C9_PfClamped ==
    /\ chan = "pf" =>
          Frac(83, 100, Scale) <= value /\ value <= Frac(96, 100, Scale)
    /\ chan = "batch" /\ sample_i > 0 =>
          Frac(75, 100, Scale) <= sample.pf /\ sample.pf <= Frac(98, 100, Scale)

\* C9: the live power factor has walked to 0.83 and the last draw would have taken
\* it below
C9_LiveClampEngaged ==
    /\ chan = "pf"
    /\ reflected
    /\ value = Frac(83, 100, Scale)

\* C10 (SpecSignal): the vibration spike is added only to samples whose index is
\* beyond 70% of N: i > 0.7 N.
C10_SpikeOnlyBeyond70Percent ==
    chan = "batch" /\ sample_spike => 10 * sample_i > 7 * sample_N

=============================================================================
